---- MODULE Spec2Model ----
(***************************************************************************)
(* TextConvert Pro: the conversion functions and the conversion history of *)
(* App.jsx, the report of TextAnalysis and the file batches of FileUpload. *)
(*                                                                         *)
(* A JavaScript string is a sequence of UTF-16 code units.  A code unit is *)
(* written as a one-character TLA+ string; the code units outside ASCII    *)
(* that the model uses are written by their code point ("U+00DF" is the    *)
(* sharp s, "U+D83D" is the first half of a surrogate pair).               *)
(***************************************************************************)
EXTENDS Integers, Sequences, FiniteSets, TLC

VARIABLES inputText, outputText, conversionHistory, stats, now,
          arg, applied, res,
          dragActive, uploadedFiles, processing, calls, alerted,
          showShortcuts, event, shortcut, clipboard, downloaded

vars == <<inputText, outputText, conversionHistory, stats, now, arg, applied, res,
          dragActive, uploadedFiles, processing, calls, alerted,
          showShortcuts, event, shortcut, clipboard, downloaded>>

appVars == <<inputText, outputText, conversionHistory, stats, now>>
fnVars == <<arg, applied, res>>
\* the state of FileUpload; calls holds the handleFiles invocations that wait
\* for a file to be read, alerted tells whether an alert has been shown
uploadVars == <<dragActive, uploadedFiles, processing, calls, alerted>>
\* the state of KeyboardShortcuts (showShortcuts), the last keydown event the
\* window has seen, the last action passed to onConversion, and the texts
\* last written to the clipboard and to a download
keyVars == <<showShortcuts, event, shortcut, clipboard, downloaded>>

\* ------------------------------------------------------------------ bounds

\* longest string given to a conversion function
MaxLen == 3
\* longest string given to TextAnalysis
MaxTextLen == 4
\* the clock may advance this many milliseconds
MaxClock == 1
\* longest string of letters and punctuation given to a letter case function
MaxCaseLen == 4
\* longest string of digits and separators given to a number function
MaxNumLen == 4
\* most tokens of a text given to TextAnalysis for its word ranking
MaxTokens == 3
\* most one-word sentences of a text given to TextAnalysis for its complexity
MaxSentences == 21
\* most files of one drop or one selection
MaxBatch == 2
\* files are dropped or selected while the list holds fewer files than this
MaxUploaded == 2
\* most handleFiles invocations in progress at a time
MaxCalls == 2
\* conversion shortcuts are pressed while the history holds fewer entries
MaxKeyed == 1

\* ------------------------------------------------------ characters, strings

Min(a, b) == IF a < b THEN a ELSE b
Max(a, b) == IF a > b THEN a ELSE b

LowerAlpha == <<"a","b","c","d","e","f","g","h","i","j","k","l","m",
                "n","o","p","q","r","s","t","u","v","w","x","y","z">>
UpperAlpha == <<"A","B","C","D","E","F","G","H","I","J","K","L","M",
                "N","O","P","Q","R","S","T","U","V","W","X","Y","Z">>
Digits == {"0","1","2","3","4","5","6","7","8","9"}

LowerLetters == {LowerAlpha[i] : i \in 1..Len(LowerAlpha)}
UpperLetters == {UpperAlpha[i] : i \in 1..Len(UpperAlpha)}

IndexIn(c, alpha) == CHOOSE i \in 1..Len(alpha) : alpha[i] = c
\* [a-z]
IsLower(c) == c \in LowerLetters
\* [A-Z]
IsUpper(c) == c \in UpperLetters
\* \d
IsDigit(c) == c \in Digits
\* \w is [A-Za-z0-9_]
IsWord(c) == IsLower(c) \/ IsUpper(c) \/ IsDigit(c) \/ c = "_"
\* \s, and the characters String.prototype.trim strips
SpaceChars == {" ", "\n", "\t"}
IsSpace(c) == c \in SpaceChars
IsAscii(c) == IsWord(c) \/ IsSpace(c) \/ c \in {".", ",", "!", "?", "-"}

\* String.prototype.toLowerCase / toUpperCase on one code unit; the result is
\* a string: the sharp s has no single upper-case code unit and becomes "SS"
LowerChar(c) == IF IsUpper(c) THEN <<LowerAlpha[IndexIn(c, UpperAlpha)]>> ELSE <<c>>
UpperChar(c) == IF IsLower(c) THEN <<UpperAlpha[IndexIn(c, LowerAlpha)]>>
                ELSE IF c = "U+00DF" THEN <<"S", "S">> ELSE <<c>>

\* the lower case of a code unit is one code unit
toLowerCase(s) == [i \in 1..Len(s) |-> LowerChar(s[i])[1]]

RECURSIVE toUpperCase(_)
toUpperCase(s) == IF s = <<>> THEN <<>> ELSE UpperChar(Head(s)) \o toUpperCase(Tail(s))

\* the strings of length at most n over the alphabet A
StrOver(A, n) == UNION {[1..k -> A] : k \in 0..n}

\* s from its i-th character on (1-based), s.substr(i - 1)
From(s, i) == SubSeq(s, i, Len(s))

\* the length of the longest prefix of s made of whitespace
RECURSIVE SpaceRun(_)
SpaceRun(s) == IF s /= <<>> /\ IsSpace(Head(s)) THEN 1 + SpaceRun(Tail(s)) ELSE 0

\* the length of the longest prefix of s made of non-whitespace (\S*)
RECURSIVE NonSpaceRun(_)
NonSpaceRun(s) == IF s /= <<>> /\ ~IsSpace(Head(s)) THEN 1 + NonSpaceRun(Tail(s)) ELSE 0

Reverse(s) == [i \in 1..Len(s) |-> s[Len(s) + 1 - i]]

\* text.replace(/\s+/g, rep)
RECURSIVE ReplaceSpaceRuns(_, _)
ReplaceSpaceRuns(s, rep) ==
  IF s = <<>> THEN <<>>
  ELSE IF IsSpace(Head(s)) THEN rep \o ReplaceSpaceRuns(From(s, SpaceRun(s) + 1), rep)
  ELSE <<Head(s)>> \o ReplaceSpaceRuns(Tail(s), rep)

\* text.replace(/\s/g, '')
RemoveSpace(s) == SelectSeq(s, LAMBDA c : ~IsSpace(c))

\* String.prototype.trim
trim(s) ==
  LET lead == SpaceRun(s)
      trail == SpaceRun(Reverse(s))
  IN IF lead = Len(s) THEN <<>> ELSE SubSeq(s, lead + 1, Len(s) - trail)

\* the concatenation of a sequence of strings, Array.prototype.join('')
RECURSIVE Flatten(_)
Flatten(ss) == IF ss = <<>> THEN <<>> ELSE Head(ss) \o Flatten(Tail(ss))

\* \b\w at the i-th character: a word character not preceded by one
WordStart(s, i) == IsWord(s[i]) /\ (i = 1 \/ ~IsWord(s[i - 1]))

\* ------------------------------------------------- App.jsx textConversions

\* text.toLowerCase().replace(/(^\w|\.\s+\w)/g, m => m.toUpperCase()), from
\* the i-th character of the lower-cased text on
RECURSIVE SentenceScan(_, _)
SentenceScan(s, i) ==
  IF i > Len(s) THEN <<>>
  ELSE IF i = 1 /\ IsWord(s[1]) THEN UpperChar(s[1]) \o SentenceScan(s, 2)
  ELSE LET k == SpaceRun(From(s, i + 1))
       IN IF s[i] = "." /\ k >= 1 /\ i + k + 1 <= Len(s) /\ IsWord(s[i + k + 1])
          THEN toUpperCase(SubSeq(s, i, i + k + 1)) \o SentenceScan(s, i + k + 2)
          ELSE <<s[i]>> \o SentenceScan(s, i + 1)

\* sentenceCase without the toLowerCase() before the replace
sentenceCaseKeepCase(text) == SentenceScan(text, 1)

sentenceCase(text) == SentenceScan(toLowerCase(text), 1)

lowerCase(text) == toLowerCase(text)

upperCase(text) == toUpperCase(text)

\* text.replace(/\w\S*/g, t => t.charAt(0).toUpperCase() + t.substr(1).toLowerCase())
RECURSIVE titleCase(_)
titleCase(text) ==
  IF text = <<>> THEN <<>>
  ELSE IF IsWord(Head(text))
  THEN LET n == NonSpaceRun(text)
       IN UpperChar(text[1]) \o toLowerCase(SubSeq(text, 2, n)) \o titleCase(From(text, n + 1))
  ELSE <<Head(text)>> \o titleCase(Tail(text))

\* /(?:^\w|[A-Z]|\b\w)/g matches the single character at position i
CamelMatch(s, i) == (i = 1 /\ IsWord(s[i])) \/ IsUpper(s[i]) \/ WordStart(s, i)

camelCase(text) ==
  ReplaceSpaceRuns(
    Flatten([i \in 1..Len(text) |->
      IF CamelMatch(text, i)
      THEN (IF i - 1 = 0 THEN LowerChar(text[i]) ELSE UpperChar(text[i]))
      ELSE <<text[i]>>]),
    <<>>)

pascalCase(text) ==
  ReplaceSpaceRuns(
    Flatten([i \in 1..Len(text) |->
      IF CamelMatch(text, i) THEN UpperChar(text[i]) ELSE <<text[i]>>]),
    <<>>)

snakeCase(text) == ReplaceSpaceRuns(toLowerCase(text), <<"_">>)

\* kebabCase with /\s*/g for /\s+/g: the empty match before every character
\* and at the end of the text is replaced as well
kebabCaseStar(text) ==
  LET s == toLowerCase(text)
  IN Flatten([i \in 1..(Len(s) + 1) |->
       IF i <= Len(s) /\ IsSpace(s[i])
       THEN (IF i > 1 /\ IsSpace(s[i - 1]) THEN <<>> ELSE <<"-">>)
       ELSE <<"-">> \o (IF i <= Len(s) THEN <<s[i]>> ELSE <<>>)])

\* kebabCase with /\s+/ for /\s+/g: only the first whitespace run is replaced
kebabCaseFirstOnly(text) ==
  LET s == toLowerCase(text)
      at == {i \in 1..Len(s) : IsSpace(s[i])}
  IN IF at = {} THEN s
     ELSE LET i == CHOOSE k \in at : \A j \in at : k <= j
          IN SubSeq(s, 1, i - 1) \o <<"-">> \o From(s, i + SpaceRun(From(s, i)))

kebabCase(text) == ReplaceSpaceRuns(toLowerCase(text), <<"-">>)

alternatingCase(text) ==
  Flatten([i \in 1..Len(text) |->
    IF (i - 1) % 2 = 0 THEN LowerChar(text[i]) ELSE UpperChar(text[i])])

inverseCase(text) ==
  Flatten([i \in 1..Len(text) |->
    IF (i - 1) % 2 = 1 THEN LowerChar(text[i]) ELSE UpperChar(text[i])])

\* reverseText by a loop that stops before the first character
reverseTextSkipFirst(text) == IF text = <<>> THEN <<>> ELSE Reverse(Tail(text))

\* text.split('').reverse().join(''): the code units in reverse order
reverseText(text) == Reverse(text)

capitalizedCase(text) ==
  Flatten([i \in 1..Len(text) |->
    IF WordStart(text, i) THEN UpperChar(text[i]) ELSE <<text[i]>>])

\* ----------------------------------------------- App.jsx numberConversions

\* text.replace(/(\d)SEP(\d)/g, '$1' + rep + '$2'): a match consumes both
\* digits, and the search goes on after the second one
RECURSIVE ReplaceBetweenDigits(_, _, _)
ReplaceBetweenDigits(s, sep, rep) ==
  IF s = <<>> THEN <<>>
  ELSE IF Len(s) >= 3 /\ IsDigit(s[1]) /\ s[2] = sep /\ IsDigit(s[3])
  THEN <<s[1], rep, s[3]>> \o ReplaceBetweenDigits(From(s, 4), sep, rep)
  ELSE <<Head(s)>> \o ReplaceBetweenDigits(Tail(s), sep, rep)

commaToPeriod(text) == ReplaceBetweenDigits(text, ",", ".")

periodToComma(text) == ReplaceBetweenDigits(text, ".", ",")

\* the length of the longest prefix of s made of digits
RECURSIVE DigitRun(_)
DigitRun(s) == IF s /= <<>> /\ IsDigit(Head(s)) THEN 1 + DigitRun(Tail(s)) ELSE 0

\* /\B(?=(\d{3})+(?!\d))/ matches the empty string before the (p+1)-th
\* character: p is not a word boundary, and a positive multiple of 3 digits
\* follows up to the end of the digit run
SeparatorAt(s, p) ==
  LET before == p >= 1 /\ IsWord(s[p])
      after == p < Len(s) /\ IsWord(s[p + 1])
      d == DigitRun(From(s, p + 1))
  IN (before <=> after) /\ d > 0 /\ d % 3 = 0

addThousandSeparators(text) ==
  Flatten([i \in 1..Len(text) |->
    (IF SeparatorAt(text, i - 1) THEN <<",">> ELSE <<>>) \o <<text[i]>>])

removeSeparators(text) == SelectSeq(text, LAMBDA c : ~(c = "," \/ IsSpace(c)))

\* ---------------------------------------------- App.jsx specialConversions

removeSpaces(text) == RemoveSpace(text)

removeLineBreaks(text) == SelectSeq(text, LAMBDA c : c /= "\n")

removeExtraSpaces(text) == ReplaceSpaceRuns(text, <<" ">>)

\* trimWhitespace with /^\s|\s$/g: one whitespace character off each end
trimWhitespaceOnce(text) ==
  LET a == IF text /= <<>> /\ IsSpace(text[1]) THEN 2 ELSE 1
      b == IF Len(text) >= a /\ IsSpace(text[Len(text)]) THEN Len(text) - 1 ELSE Len(text)
  IN SubSeq(text, a, b)

trimWhitespace(text) == trim(text)

\* the keys of textConversions, numberConversions and specialConversions
TextConversionIds == {"sentenceCase", "lowerCase", "upperCase", "titleCase",
                      "camelCase", "pascalCase", "snakeCase", "kebabCase",
                      "alternatingCase", "inverseCase", "reverseText",
                      "capitalizedCase"}
NumberConversionIds == {"commaToPeriod", "periodToComma", "addThousandSeparators",
                        "removeSeparators"}
SpecialConversionIds == {"removeSpaces", "removeLineBreaks", "removeExtraSpaces",
                         "trimWhitespace"}
ConversionIds == TextConversionIds \cup NumberConversionIds \cup SpecialConversionIds

\* the function the three objects hold under the key id, applied to text
Convert(id, text) ==
  CASE id = "sentenceCase" -> sentenceCase(text)
    [] id = "lowerCase" -> lowerCase(text)
    [] id = "upperCase" -> upperCase(text)
    [] id = "titleCase" -> titleCase(text)
    [] id = "camelCase" -> camelCase(text)
    [] id = "pascalCase" -> pascalCase(text)
    [] id = "snakeCase" -> snakeCase(text)
    [] id = "kebabCase" -> kebabCase(text)
    [] id = "alternatingCase" -> alternatingCase(text)
    [] id = "inverseCase" -> inverseCase(text)
    [] id = "reverseText" -> reverseText(text)
    [] id = "capitalizedCase" -> capitalizedCase(text)
    [] id = "commaToPeriod" -> commaToPeriod(text)
    [] id = "periodToComma" -> periodToComma(text)
    [] id = "addThousandSeparators" -> addThousandSeparators(text)
    [] id = "removeSeparators" -> removeSeparators(text)
    [] id = "removeSpaces" -> removeSpaces(text)
    [] id = "removeLineBreaks" -> removeLineBreaks(text)
    [] id = "removeExtraSpaces" -> removeExtraSpaces(text)
    [] id = "trimWhitespace" -> trimWhitespace(text)

\* ------------------------------------------------------------ TextAnalysis

\* s.split(/[seps]+/): the pieces between the maximal runs of separator
\* characters, empty first and last pieces included; pieces are the pieces
\* found so far
RECURSIVE SplitAcc(_, _, _)
SplitAcc(s, seps, pieces) ==
  LET at == {i \in 1..Len(s) : s[i] \in seps}
  IN IF at = {} THEN Append(pieces, s)
     ELSE LET first == CHOOSE i \in at : \A j \in at : i <= j
              last == CHOOSE k \in first..Len(s) :
                        /\ \A j \in first..k : s[j] \in seps
                        /\ (k = Len(s) \/ s[k + 1] \notin seps)
          IN SplitAcc(From(s, last + 1), seps, Append(pieces, SubSeq(s, 1, first - 1)))

SplitRuns(s, seps) == SplitAcc(s, seps, <<>>)

\* the line breaks of the whitespace that follows the i-th character of s
BreaksAfter(s, i) == {j \in (i + 1)..(i + SpaceRun(From(s, i + 1))) : s[j] = "\n"}

\* s.split(/\n\s*\n/): a separator starts at a line break and ends at the last
\* line break of the whitespace that follows it; pieces are the pieces found
\* so far
RECURSIVE SplitParagraphsAcc(_, _)
SplitParagraphsAcc(s, pieces) ==
  LET at == {i \in 1..Len(s) : s[i] = "\n" /\ BreaksAfter(s, i) /= {}}
  IN IF at = {} THEN Append(pieces, s)
     ELSE LET first == CHOOSE i \in at : \A j \in at : i <= j
              last == CHOOSE j \in BreaksAfter(s, first) :
                        \A k \in BreaksAfter(s, first) : k <= j
          IN SplitParagraphsAcc(From(s, last + 1), Append(pieces, SubSeq(s, 1, first - 1)))

SplitParagraphs(s) == SplitParagraphsAcc(s, <<>>)

\* .filter(p => p.trim().length > 0).length
CountNonBlank(pieces) == Cardinality({i \in 1..Len(pieces) : Len(trim(pieces[i])) > 0})

\* the word count without the trim: text.split(/\s+/).length
WordCountNoTrim(text) == IF trim(text) /= <<>> THEN Len(SplitRuns(text, SpaceChars)) ELSE 0

\* text.trim() ? text.trim().split(/\s+/).length : 0
WordCount(text) == IF trim(text) /= <<>> THEN Len(SplitRuns(trim(text), SpaceChars)) ELSE 0

Vowels == {"a", "e", "i", "o", "u", "A", "E", "I", "O", "U"}
SentenceEnds == {".", "!", "?"}

\* Math.round(n / d) for n >= 0, d > 0
RoundDiv(n, d) == (2 * n + d) \div (2 * d)
\* Math.ceil(n / d) for n >= 0, d > 0
CeilDiv(n, d) == (n + d - 1) \div d

\* the increasing sequence of the elements of a finite set of integers
RECURSIVE Ascending(_)
Ascending(S) ==
  IF S = {} THEN <<>>
  ELSE LET m == CHOOSE x \in S : \A y \in S : x <= y
       IN <<m>> \o Ascending(S \ {m})

\* the distinct elements of seq, each at the place of its first occurrence:
\* the order in which assignments create the keys of an object
FirstOccurrences(seq) ==
  LET firsts == Ascending({i \in 1..Len(seq) : \A j \in 1..(i - 1) : seq[j] /= seq[i]})
  IN [k \in 1..Len(firsts) |-> seq[firsts[k]]]

Occurrences(seq, x) == Cardinality({i \in 1..Len(seq) : seq[i] = x})

\* the digit a character writes
DigitVal(c) == IndexIn(c, <<"0","1","2","3","4","5","6","7","8","9">>) - 1

\* x <= y for two strings of digits of the same length
RECURSIVE DigitsLeq(_, _)
DigitsLeq(x, y) ==
  IF x = <<>> THEN TRUE
  ELSE IF DigitVal(Head(x)) /= DigitVal(Head(y)) THEN DigitVal(Head(x)) < DigitVal(Head(y))
  ELSE DigitsLeq(Tail(x), Tail(y))

\* x <= y for the numbers two strings of digits without leading zero write
NumLeq(x, y) == Len(x) < Len(y) \/ (Len(x) = Len(y) /\ DigitsLeq(x, y))

\* an integer-like property key (a canonical array index): digits only, no
\* leading zero, at most 2^32 - 2
IsIndexKey(w) ==
  /\ w /= <<>>
  /\ \A i \in 1..Len(w) : IsDigit(w[i])
  /\ (Len(w) = 1 \/ w[1] /= "0")
  /\ NumLeq(w, <<"4","2","9","4","9","6","7","2","9","4">>)

\* Object.entries(freq), freq filled by freq[k] = (freq[k] || 0) + 1 for the
\* keys of seq in turn: integer-like keys come first in increasing numeric
\* order, the other keys follow in the order of their creation
RECURSIVE AscendingKeys(_)
AscendingKeys(S) ==
  IF S = {} THEN <<>>
  ELSE LET m == CHOOSE x \in S : \A y \in S : NumLeq(x, y)
       IN <<m>> \o AscendingKeys(S \ {m})

ObjectEntries(seq) ==
  LET created == FirstOccurrences(seq)
      indexKeys == AscendingKeys({created[i] : i \in {j \in 1..Len(created) : IsIndexKey(created[j])}})
      otherKeys == SelectSeq(created, LAMBDA k : ~IsIndexKey(k))
      keys == indexKeys \o otherKeys
  IN [i \in 1..Len(keys) |-> [key |-> keys[i], count |-> Occurrences(seq, keys[i])]]

\* entries.sort(([,a], [,b]) => b - a): by count, largest first; the sort is
\* stable, entries of equal count keep their order
RECURSIVE SortByCount(_)
SortByCount(entries) ==
  IF entries = <<>> THEN <<>>
  ELSE LET i == CHOOSE k \in 1..Len(entries) :
                  /\ \A j \in 1..Len(entries) : entries[j].count <= entries[k].count
                  /\ \A j \in 1..(k - 1) : entries[j].count < entries[k].count
       IN <<entries[i]>> \o
          SortByCount(SubSeq(entries, 1, i - 1) \o SubSeq(entries, i + 1, Len(entries)))

\* .slice(0, n)
Slice(seq, n) == SubSeq(seq, 1, Min(n, Len(seq)))

StopWords ==
  {<<"t","h","e">>, <<"a">>, <<"a","n">>, <<"a","n","d">>, <<"o","r">>,
   <<"b","u","t">>, <<"i","n">>, <<"o","n">>, <<"a","t">>, <<"t","o">>,
   <<"f","o","r">>, <<"o","f">>, <<"w","i","t","h">>, <<"b","y">>,
   <<"i","s">>, <<"a","r","e">>, <<"w","a","s">>, <<"w","e","r","e">>,
   <<"b","e">>, <<"b","e","e","n">>, <<"h","a","v","e">>, <<"h","a","s">>,
   <<"h","a","d">>, <<"d","o">>, <<"d","o","e","s">>, <<"d","i","d">>,
   <<"w","i","l","l">>, <<"w","o","u","l","d">>, <<"c","o","u","l","d">>,
   <<"s","h","o","u","l","d">>, <<"m","a","y">>, <<"m","i","g","h","t">>,
   <<"m","u","s","t">>, <<"c","a","n">>, <<"t","h","i","s">>,
   <<"t","h","a","t">>, <<"t","h","e","s","e">>, <<"t","h","o","s","e">>,
   <<"i">>, <<"y","o","u">>, <<"h","e">>, <<"s","h","e">>, <<"i","t">>,
   <<"w","e">>, <<"t","h","e","y">>, <<"m","e">>, <<"h","i","m">>,
   <<"h","e","r">>, <<"u","s">>, <<"t","h","e","m">>}

\* the length of the trimmed text: text.trim().length
CharactersTrimmed(text) == Len(trim(text))

\* text.length
Characters(text) == Len(text)

\* text.replace(/\s/g, '').length
CharactersNoSpaces(text) == Len(RemoveSpace(text))

\* text.split(/[.!?]+/).filter(s => s.trim().length > 0).length
SentenceCount(text) == CountNonBlank(SplitRuns(text, SentenceEnds))

\* text.split(/\n\s*\n/).filter(p => p.trim().length > 0).length
ParagraphCount(text) == CountNonBlank(SplitParagraphs(text))

\* Math.round(words / sentences * 10) / 10, in tenths
AverageWordsPerSentence(words, sentences) ==
  IF sentences > 0 THEN RoundDiv(10 * words, sentences) ELSE 0

\* readabilityScore without Math.max(0, Math.min(100, ...)): the rounded score
ReadabilityScoreUnclamped(text, words, avgSentenceLength) ==
  LET vowelPieces == Cardinality({i \in 1..Len(text) : text[i] \in Vowels}) + 1
      scoreNum == 2068350 * words - 1015 * avgSentenceLength * words - 846000 * vowelPieces
      den == 10000 * words
  IN IF scoreNum >= 0 THEN RoundDiv(scoreNum, den) ELSE 0 - RoundDiv(0 - scoreNum, den)

\* Math.round of the clamped score; avgSentenceLength is in tenths, vowelPieces
\* is text.split(/[aeiouAEIOU]/).length and avgSyllables is vowelPieces / words
ReadabilityScore(text, words, avgSentenceLength) ==
  LET vowelPieces == Cardinality({i \in 1..Len(text) : text[i] \in Vowels}) + 1
      \* 206.835 - 1.015 * avgSentenceLength - 84.6 * avgSyllables, times scoreDen
      scoreDen == 10000 * words
      scoreNum == IF words > 0
                  THEN 2068350 * words - 1015 * avgSentenceLength * words
                       - 846000 * vowelPieces
                  ELSE 2068350 - 1015 * avgSentenceLength
      den == IF words > 0 THEN scoreDen ELSE 10000
      clamped == Max(0, Min(100 * den, scoreNum))
  IN RoundDiv(clamped, den)

\* the words counted for mostCommonWords
CountedWords(text) ==
  LET stripped == SelectSeq(toLowerCase(text), LAMBDA c : IsWord(c) \/ IsSpace(c))
  IN SelectSeq(SplitRuns(stripped, SpaceChars),
               LAMBDA word : Len(word) > 2 /\ word \notin StopWords)

MostCommonWords(text) ==
  LET top == Slice(SortByCount(ObjectEntries(CountedWords(text))), 5)
  IN [i \in 1..Len(top) |-> [word |-> top[i].key, count |-> top[i].count]]

\* the entries of characterFrequency, in the order the object lists them
CharacterFrequency(text) ==
  LET letters == SelectSeq(RemoveSpace(toLowerCase(text)), LAMBDA c : IsLower(c))
      \* the keys of charFreq are strings of one character
      top == Slice(SortByCount(ObjectEntries([i \in 1..Len(letters) |-> <<letters[i]>>])), 5)
  IN [i \in 1..Len(top) |-> [char |-> top[i].key[1], count |-> top[i].count]]

\* avgSentenceLength is in tenths; the average word length is compared unrounded
TextComplexity(avgSentenceLength, charactersNoSpaces, words) ==
  IF avgSentenceLength > 200 \/ charactersNoSpaces > 6 * words THEN "Complex"
  ELSE IF avgSentenceLength > 150 \/ charactersNoSpaces > 5 * words THEN "Moderate"
  ELSE "Simple"

\* the report returned for empty and whitespace-only text; characterFrequency
\* is written as the sequence of its entries
EmptyAnalysis ==
  [characters |-> 0, charactersNoSpaces |-> 0, words |-> 0, sentences |-> 0,
   paragraphs |-> 0, averageWordsPerSentence |-> 0, readingTime |-> 0,
   readabilityScore |-> 0, mostCommonWords |-> <<>>, characterFrequency |-> <<>>,
   textComplexity |-> "Simple"]

\* The useMemo body of TextAnalysis.  averageWordsPerSentence and avgWordLength
\* have one decimal and are held in tenths.
TextAnalysis(text) ==
  IF text = <<>> \/ Len(trim(text)) = 0 THEN EmptyAnalysis
  ELSE
  LET characters == Characters(text)
      charactersNoSpaces == CharactersNoSpaces(text)
      words == WordCount(text)
      sentences == SentenceCount(text)
      paragraphs == ParagraphCount(text)
      averageWordsPerSentence == AverageWordsPerSentence(words, sentences)
  IN [characters |-> characters,
      charactersNoSpaces |-> charactersNoSpaces,
      words |-> words,
      sentences |-> sentences,
      paragraphs |-> paragraphs,
      averageWordsPerSentence |-> averageWordsPerSentence,
      readingTime |-> CeilDiv(words, 200),
      readabilityScore |-> ReadabilityScore(text, words, averageWordsPerSentence),
      mostCommonWords |-> MostCommonWords(text),
      characterFrequency |-> CharacterFrequency(text),
      textComplexity |-> TextComplexity(averageWordsPerSentence, charactersNoSpaces, words),
      \* Math.round((charactersNoSpaces / words || 0) * 10) / 10, in tenths
      avgWordLength |-> IF words > 0 THEN RoundDiv(10 * charactersNoSpaces, words) ELSE 0]

\* <TextAnalysis text={inputText} />: the report the App shows is the one of
\* the current input
analysis == TextAnalysis(inputText)

\* the statistics effect of App: characters, words and lines of the input
Stats(text) ==
  [characters |-> Len(text),
   words |-> WordCount(text),
   lines |-> Len(SelectSeq(text, LAMBDA c : c = "\n")) + 1]

\* ------------------------------------------------------------- the App

\* conversionHistory keeps the newest entry and 9 older ones
HistoryKept == 9
\* toLocaleTimeString shows the time to the second
MsPerSecond == 1000

\* the texts typed, pasted or loaded into the input area of the App
AppInputs == {<<>>, <<" ">>, <<"a", "B">>}
\* the conversion buttons pressed in the App
AppConversionIds == {"upperCase", "reverseText"}
\* the strings given to the conversion functions
FnAlphabet == {"a", "b", "c", "B", " ", "\n", "U+00DF", "U+D83D"}
FnInputs == StrOver(FnAlphabet, MaxLen)
\* the texts given to TextAnalysis
TextAlphabet == {"a", "b", " ", "\n", ".", "U+00DF"}
TextInputs == StrOver(TextAlphabet, MaxTextLen)

\* useState initial values, after the first run of the statistics effect
\* useState initial values of FileUpload; no handleFiles has been called
InitFileUpload ==
  /\ dragActive = FALSE
  /\ uploadedFiles = <<>>
  /\ processing = FALSE
  /\ calls = <<>>
  /\ alerted = FALSE

\* no keydown event has been seen
NoEvent == [tagName |-> "", key |-> <<>>, ctrlKey |-> FALSE, shiftKey |-> FALSE]

\* useState initial value of KeyboardShortcuts; nothing has been dispatched,
\* copied or downloaded
InitKeyboardShortcuts ==
  /\ showShortcuts = FALSE
  /\ event = NoEvent
  /\ shortcut = "none"
  /\ clipboard = <<>>
  /\ downloaded = <<>>

InitApp ==
  /\ inputText = <<>>
  /\ outputText = <<>>
  /\ conversionHistory = <<>>
  /\ stats = Stats(<<>>)
  /\ now = 0
  /\ InitFileUpload
  /\ InitKeyboardShortcuts

Init ==
  /\ InitApp
  /\ arg = <<>>
  /\ applied = "none"
  /\ res = <<>>

\* setInputText(text), then the statistics effect, which depends on inputText
SetInputText(text) ==
  /\ inputText' = text
  /\ stats' = Stats(text)

\* the textarea's onChange, fired when the value changes
EditInput(text) ==
  /\ text /= inputText
  /\ SetInputText(text)
  /\ UNCHANGED <<outputText, conversionHistory, now, fnVars, uploadVars, keyVars>>

\* handleConversion with output: outputText in the entry: the state read in
\* the handler is still the one of the last render
HandleConversionStaleOutput(conversionType, t) ==
  /\ IF trim(inputText) = <<>>
     THEN UNCHANGED <<outputText, conversionHistory, now>>
     ELSE LET result == Convert(conversionType, inputText)
              historyEntry == [id |-> t,
                               input |-> inputText,
                               output |-> outputText,
                               type |-> conversionType,
                               timestamp |-> t \div MsPerSecond]
          IN /\ now' = t
             /\ outputText' = result
             /\ conversionHistory' =
                  <<historyEntry>> \o
                  SubSeq(conversionHistory, 1, Min(HistoryKept, Len(conversionHistory)))
  /\ UNCHANGED <<inputText, stats, fnVars, uploadVars>>

\* handleConversion with prev.slice(0, 10): one entry too many is kept
HandleConversionKeepTen(conversionType, t) ==
  /\ IF trim(inputText) = <<>>
     THEN UNCHANGED <<outputText, conversionHistory, now>>
     ELSE LET result == Convert(conversionType, inputText)
              historyEntry == [id |-> t,
                               input |-> inputText,
                               output |-> result,
                               type |-> conversionType,
                               timestamp |-> t \div MsPerSecond]
          IN /\ now' = t
             /\ outputText' = result
             /\ conversionHistory' =
                  <<historyEntry>> \o
                  SubSeq(conversionHistory, 1, Min(HistoryKept + 1, Len(conversionHistory)))
  /\ UNCHANGED <<inputText, stats, fnVars, uploadVars>>

\* handleConversion without if (!inputText.trim()) return
HandleConversionNoGuard(conversionType, t) ==
  /\ LET result == Convert(conversionType, inputText)
         historyEntry == [id |-> t,
                          input |-> inputText,
                          output |-> result,
                          type |-> conversionType,
                          timestamp |-> t \div MsPerSecond]
     IN /\ now' = t
        /\ outputText' = result
        /\ conversionHistory' =
             <<historyEntry>> \o
             SubSeq(conversionHistory, 1, Min(HistoryKept, Len(conversionHistory)))
  /\ UNCHANGED <<inputText, stats, fnVars, uploadVars>>

\* handleConversion(conversionType, conversions[conversionType]); t is the
\* value Date.now() returns, which is never before an earlier reading (now)
HandleConversion(conversionType, t) ==
  /\ IF trim(inputText) = <<>>
     THEN UNCHANGED <<outputText, conversionHistory, now>>
     ELSE LET result == Convert(conversionType, inputText)
              historyEntry == [id |-> t,
                               input |-> inputText,
                               output |-> result,
                               type |-> conversionType,
                               timestamp |-> t \div MsPerSecond]
          IN /\ now' = t
             /\ outputText' = result
             /\ conversionHistory' =
                  <<historyEntry>> \o
                  SubSeq(conversionHistory, 1, Min(HistoryKept, Len(conversionHistory)))
  /\ UNCHANGED <<inputText, stats, fnVars, uploadVars>>

clearAll ==
  /\ SetInputText(<<>>)
  /\ outputText' = <<>>
  /\ UNCHANGED <<conversionHistory, now, fnVars, uploadVars>>

\* the buttons call handleConversion and clearAll, which handleShortcutAction
\* calls as well
Next ==
  \/ \E text \in AppInputs : EditInput(text)
  \/ \E id \in AppConversionIds, t \in now..MaxClock :
       HandleConversion(id, t) /\ UNCHANGED keyVars
  \/ clearAll /\ UNCHANGED keyVars

Spec == Init /\ [][Next]_vars

\* ------------------------------------------- the conversion functions alone

InitFn ==
  /\ InitApp
  /\ arg \in FnInputs
  /\ applied = "none"
  /\ res = <<>>

\* one call conversions[id](arg)
Apply(id) ==
  /\ applied' = id
  /\ res' = Convert(id, arg)
  /\ UNCHANGED <<arg, appVars, uploadVars, keyVars>>

NextFn == \E id \in ConversionIds : Apply(id)

SpecFn == InitFn /\ [][NextFn]_vars

\* --------------------------------------------------- the analysis of a text

InitText ==
  /\ InitApp
  /\ arg \in TextInputs
  /\ applied = "none"
  /\ res = <<>>

\* handleFileUpload(arg): the text of a file becomes the input
handleFileUpload ==
  /\ SetInputText(arg)
  /\ UNCHANGED <<outputText, conversionHistory, now, fnVars, uploadVars, keyVars>>

NextText == handleFileUpload

SpecText == InitText /\ [][NextText]_vars

\* ----------------------------------- the letter case functions on punctuation

\* "hello world test"
HelloWorldTest == <<"h","e","l","l","o"," ","w","o","r","l","d"," ","t","e","s","t">>

\* the strings given to sentenceCase, titleCase and camelCase
CaseAlphabet == {"a", "B", " ", "\n", "-", ".", "!"}
CaseInputs == StrOver(CaseAlphabet, MaxCaseLen) \cup {HelloWorldTest}
CaseConversionIds == {"sentenceCase", "titleCase", "camelCase"}

InitCase ==
  /\ InitApp
  /\ arg \in CaseInputs
  /\ applied = "none"
  /\ res = <<>>

NextCase == \E id \in CaseConversionIds : Apply(id)

SpecCase == InitCase /\ [][NextCase]_vars

\* ------------------------------------- the number functions on digit strings

\* "1234567"
Digits1234567 == <<"1","2","3","4","5","6","7">>

\* the strings given to the number functions
NumberAlphabet == {"1", "2", "a", "_", ".", ","}
NumberInputs == StrOver(NumberAlphabet, MaxNumLen) \cup {Digits1234567, <<"1",",","2",",","3">>}

InitNumber ==
  /\ InitApp
  /\ arg \in NumberInputs
  /\ applied = "none"
  /\ res = <<>>

NextNumber == \E id \in NumberConversionIds : Apply(id)

SpecNumber == InitNumber /\ [][NextNumber]_vars

\* ------------------------------------------ the analysis of longer texts

\* the tokens of the texts ranked by mostCommonWords
Tokens == {<<"a","b","c">>, <<"b","c","d">>, <<"1","2","3">>, <<"4","5">>, <<"t","h","e">>}

\* words.join(' ')
RECURSIVE JoinWords(_)
JoinWords(words) ==
  IF words = <<>> THEN <<>>
  ELSE IF Len(words) = 1 THEN words[1]
  ELSE words[1] \o <<" ">> \o JoinWords(Tail(words))

TokenTexts == {JoinWords(ws) : ws \in StrOver(Tokens, MaxTokens)}

\* a sentence of one word: n - 1 letters and a period
OneWordSentence(n) == [i \in 1..(n - 1) |-> "b"] \o <<".">>

\* the texts of w one-word sentences, the first of n + extra characters and
\* the others of n characters
SentenceTexts ==
  {JoinWords([i \in 1..w |-> OneWordSentence(IF i = 1 THEN n + extra ELSE n)]) :
     w \in 1..MaxSentences, n \in {5, 6}, extra \in {0, 1}}

ReportInputs == TokenTexts \cup SentenceTexts

InitReport ==
  /\ InitApp
  /\ arg \in ReportInputs
  /\ applied = "none"
  /\ res = <<>>

NextReport == handleFileUpload

SpecReport == InitReport /\ [][NextReport]_vars

\* ------------------------------------------------------------- FileUpload

\* the files dropped or selected: name and type as the browser reports them,
\* content as readAsText returns it
NotesTxt == [name |-> <<"a", ".", "t", "x", "t">>, type |-> "text/plain", content |-> <<"a">>]
ReadmeMd == [name |-> <<"b", ".", "m", "d">>, type |-> "", content |-> <<"b", " ">>]
PicturePng == [name |-> <<"p", ".", "p", "n", "g">>, type |-> "image/png", content |-> <<>>]
Files == {NotesTxt, ReadmeMd, PicturePng}
\* Array.from(e.dataTransfer.files), Array.from(e.target.files)
Batches == StrOver(Files, MaxBatch)

\* String.prototype.endsWith
endsWith(s, suffix) ==
  Len(s) >= Len(suffix) /\ SubSeq(s, Len(s) - Len(suffix) + 1, Len(s)) = suffix

\* a filter that keeps every file
IsAnyFile(file) == TRUE

\* the filter of handleFiles
IsTextFile(file) ==
  \/ file.type = "text/plain"
  \/ endsWith(file.name, <<".", "t", "x", "t">>)
  \/ endsWith(file.name, <<".", "m", "d">>)
  \/ endsWith(file.name, <<".", "c", "s", "v">>)

\* a drop zone that takes drops and selections while files are processed
DropZoneAlwaysEnabled == TRUE

\* the drop zone has pointer-events-none and its input is disabled while
\* processing is true: drag, drop and change events reach it only otherwise
DropZoneEnabled == ~processing

\* handleFiles(files) up to its first await or its return
handleFiles(files) ==
  LET textFiles == SelectSeq(files, IsTextFile)
  IN IF Len(textFiles) = 0
     THEN \* setProcessing(true), alert(...), setProcessing(false), return
          /\ alerted' = TRUE
          /\ processing' = FALSE
          /\ UNCHANGED <<uploadedFiles, calls>>
     ELSE \* setProcessing(true), await readFileAsText(textFiles[0])
          /\ processing' = TRUE
          /\ calls' = Append(calls, [textFiles |-> textFiles, processedFiles |-> <<>>])
          /\ UNCHANGED <<uploadedFiles, alerted>>

handleDrag(type) ==
  /\ DropZoneEnabled
  /\ dragActive' = IF type \in {"dragenter", "dragover"} THEN TRUE
                   ELSE IF type = "dragleave" THEN FALSE ELSE dragActive
  /\ UNCHANGED <<uploadedFiles, processing, calls, alerted, appVars, fnVars, keyVars>>

handleDrop(files) ==
  /\ DropZoneEnabled
  /\ Len(calls) < MaxCalls /\ Len(uploadedFiles) < MaxUploaded
  /\ dragActive' = FALSE
  /\ handleFiles(files)
  /\ UNCHANGED <<appVars, fnVars, keyVars>>

handleFileInput(files) ==
  /\ DropZoneEnabled
  /\ Len(calls) < MaxCalls /\ Len(uploadedFiles) < MaxUploaded
  /\ handleFiles(files)
  /\ UNCHANGED <<dragActive, appVars, fnVars, keyVars>>

\* The FileReader of the k-th invocation in progress fires onload (loaded) or
\* onerror, and handleFiles goes on after its await up to the next await or
\* to its end.  The id, size and timestamp of fileData are display data.
readFileAsText(k, loaded) ==
  /\ k \in 1..Len(calls)
  /\ LET file == Head(calls[k].textFiles)
         rest == Tail(calls[k].textFiles)
         fileData == [name |-> file.name, content |-> file.content]
         processedFiles == IF loaded THEN Append(calls[k].processedFiles, fileData)
                           ELSE calls[k].processedFiles
     IN IF rest /= <<>>
        THEN /\ calls' = [calls EXCEPT ![k] = [textFiles |-> rest,
                                               processedFiles |-> processedFiles]]
             /\ UNCHANGED <<uploadedFiles, processing, inputText, stats>>
        ELSE /\ calls' = SubSeq(calls, 1, k - 1) \o SubSeq(calls, k + 1, Len(calls))
             /\ uploadedFiles' = uploadedFiles \o processedFiles
             /\ processing' = FALSE
             /\ IF Len(processedFiles) > 0
                THEN \* onTextLoaded is handleFileUpload of App
                     SetInputText(processedFiles[1].content)
                ELSE UNCHANGED <<inputText, stats>>
  /\ UNCHANGED <<dragActive, alerted, outputText, conversionHistory, now, fnVars, keyVars>>

DragTypes == {"dragenter", "dragover", "dragleave"}

NextUpload ==
  \/ \E type \in DragTypes : handleDrag(type)
  \/ \E files \in Batches : handleDrop(files)
  \/ \E files \in Batches : handleFileInput(files)
  \/ \E k \in 1..MaxCalls, loaded \in BOOLEAN : readFileAsText(k, loaded)

\* a FileReader that was started fires onload or onerror
SpecUpload ==
  /\ Init
  /\ [][NextUpload]_vars
  /\ WF_vars(\E k \in 1..MaxCalls, loaded \in BOOLEAN : readFileAsText(k, loaded))

\* ------------------------------------------------------ KeyboardShortcuts

\* the tagName of the targets of the keydown events, the keys and the events
Tags == {"TEXTAREA", "INPUT", "BODY"}
EscapeKey == <<"E", "s", "c", "a", "p", "e">>
Keys == {<<"?">>, <<"U">>, <<"c">>, <<"d">>, <<"x">>, EscapeKey}
KeyEvents == [tagName : Tags, key : Keys, ctrlKey : BOOLEAN, shiftKey : BOOLEAN]

\* the target test of handleKeyDown with 'TEXTAREA' left out
TypingTargetInputOnly(tagName) == tagName = "INPUT"

\* e.target.tagName === 'TEXTAREA' || e.target.tagName === 'INPUT'
IsTypingTarget(tagName) == tagName \in {"TEXTAREA", "INPUT"}

\* the cases of the two switch statements of handleKeyDown
ConversionShortcuts ==
  [k \in {"u", "l", "t", "c", "p", "s", "k", "r"} |->
     CASE k = "u" -> "upperCase"
       [] k = "l" -> "lowerCase"
       [] k = "t" -> "titleCase"
       [] k = "c" -> "camelCase"
       [] k = "p" -> "pascalCase"
       [] k = "s" -> "snakeCase"
       [] k = "k" -> "kebabCase"
       [] k = "r" -> "reverseText"]
ActionShortcuts ==
  [k \in {"c", "d", "x"} |->
     CASE k = "c" -> "copy"
       [] k = "d" -> "download"
       [] k = "x" -> "clear"]

\* the action handleKeyDown passes to onConversion for the event e, "none"
\* when no case of a switch is taken
ShortcutOf(e) ==
  LET key == toLowerCase(e.key)
  IN IF e.ctrlKey /\ ~e.shiftKey /\ Len(key) = 1 /\ key[1] \in DOMAIN ConversionShortcuts
     THEN ConversionShortcuts[key[1]]
     ELSE IF e.ctrlKey /\ e.shiftKey /\ Len(key) = 1 /\ key[1] \in DOMAIN ActionShortcuts
     THEN ActionShortcuts[key[1]]
     ELSE "none"

copyToClipboard ==
  /\ clipboard' = IF outputText /= <<>> THEN outputText ELSE clipboard
  /\ UNCHANGED <<downloaded, appVars, fnVars, uploadVars>>

downloadText ==
  /\ downloaded' = IF outputText /= <<>> THEN outputText ELSE downloaded
  /\ UNCHANGED <<clipboard, appVars, fnVars, uploadVars>>

handleShortcutAction(action, t) ==
  CASE action = "copy" -> copyToClipboard
    [] action = "download" -> downloadText
    [] action = "clear" -> clearAll /\ UNCHANGED <<clipboard, downloaded>>
    [] OTHER ->
         IF action \in TextConversionIds
         THEN HandleConversion(action, t) /\ UNCHANGED <<clipboard, downloaded>>
         ELSE UNCHANGED <<clipboard, downloaded, appVars, fnVars, uploadVars>>

handleKeyDown(e, t) ==
  /\ ShortcutOf(e) \in TextConversionIds => Len(conversionHistory) < MaxKeyed
  /\ event' = e
  /\ IF IsTypingTarget(e.tagName)
     THEN UNCHANGED <<showShortcuts, shortcut, clipboard, downloaded,
                      appVars, fnVars, uploadVars>>
     ELSE IF e.key = <<"?">> /\ ~e.ctrlKey /\ ~e.shiftKey
     THEN /\ showShortcuts' = ~showShortcuts
          /\ UNCHANGED <<shortcut, clipboard, downloaded, appVars, fnVars, uploadVars>>
     ELSE /\ IF ShortcutOf(e) /= "none"
             THEN /\ shortcut' = ShortcutOf(e)
                  /\ handleShortcutAction(ShortcutOf(e), t)
             ELSE UNCHANGED <<shortcut, clipboard, downloaded,
                              appVars, fnVars, uploadVars>>
          /\ showShortcuts' = IF e.key = EscapeKey THEN FALSE ELSE showShortcuts

\* the button of KeyboardShortcuts
ToggleShortcuts ==
  /\ showShortcuts' = ~showShortcuts
  /\ UNCHANGED <<event, shortcut, clipboard, downloaded, appVars, fnVars, uploadVars>>

\* the keys are pressed within one millisecond
NextKeys ==
  \/ \E text \in AppInputs : EditInput(text)
  \/ \E e \in KeyEvents : handleKeyDown(e, now)
  \/ ToggleShortcuts

SpecKeys == Init /\ [][NextKeys]_vars

\* ------------------------------------------------------------- properties

\* C1: every conversion function of the three families, applied to the empty
\* string, returns the empty string.
EmptyStringStaysEmpty ==
  (applied \in ConversionIds /\ arg = <<>>) => res = <<>>

EmptyStringConverted == applied = "camelCase" /\ arg = <<>> /\ res = <<>>

\* the first n entries of the history h
Older(h, n) == SubSeq(h, 1, n)

\* C2: a handleConversion called while the input has a non-empty trim sets the
\* output to the conversion of the input and puts exactly one new entry at the
\* head of the history, with the current input, that output and the type; so
\* every entry of the history has output = conversion(type)(input).
ConversionRecorded ==
  /\ [](\A i \in 1..Len(conversionHistory) :
          conversionHistory[i].output =
            Convert(conversionHistory[i].type, conversionHistory[i].input))
  /\ [][\A id \in AppConversionIds, t \in now..MaxClock :
          (HandleConversion(id, t) /\ \E i \in 1..Len(inputText) : ~IsSpace(inputText[i]))
          => /\ outputText' = Convert(id, inputText)
             /\ conversionHistory' /= <<>>
             /\ conversionHistory'[1].input = inputText
             /\ conversionHistory'[1].output = Convert(id, inputText)
             /\ conversionHistory'[1].type = id
             /\ Tail(conversionHistory') =
                  Older(conversionHistory, Len(conversionHistory') - 1)]_vars

ConversionInHistory ==
  /\ Len(conversionHistory) = 2
  /\ conversionHistory[1].type = "reverseText"
  /\ conversionHistory[1].input = <<"a", "B">>
  /\ conversionHistory[1].output = <<"B", "a">>
  /\ outputText = <<"B", "a">>
  /\ conversionHistory[2].type = "upperCase"
  /\ conversionHistory[2].output = <<"A", "B">>

\* C3: the history never holds more than 10 entries and is ordered newest
\* first; a new entry goes to index 0, the older entries keep their order, and
\* when an 11th entry is added the last (oldest) one is dropped.
HistoryBoundedNewestFirst ==
  /\ [](/\ Len(conversionHistory) <= 10
        /\ \A i, j \in 1..Len(conversionHistory) :
             i < j => conversionHistory[i].id >= conversionHistory[j].id)
  /\ [][conversionHistory' /= conversionHistory =>
          /\ Len(conversionHistory') = Min(Len(conversionHistory) + 1, 10)
          /\ conversionHistory'[1].id = now'
          /\ \A i \in 2..Len(conversionHistory') :
               conversionHistory'[i] = conversionHistory[i - 1]]_vars

HistoryFull ==
  /\ Len(conversionHistory) = 10
  /\ conversionHistory[1].id = 1
  /\ conversionHistory[1].type = "reverseText"
  /\ conversionHistory[10].id = 0
  /\ conversionHistory[10].type = "upperCase"

\* C4: all entries of the history have pairwise distinct ids, also when two
\* conversions read the same Date.now().
HistoryIdsDistinct ==
  \A i, j \in 1..Len(conversionHistory) :
    i /= j => conversionHistory[i].id /= conversionHistory[j].id

\* C5: upperCase, lowerCase, trimWhitespace and removeExtraSpaces are
\* idempotent: applying the function to its own result changes nothing.
Idempotent ==
  applied \in {"upperCase", "lowerCase", "trimWhitespace", "removeExtraSpaces"}
    => Convert(applied, res) = res

IdempotentOnSpaces ==
  /\ applied = "trimWhitespace"
  /\ arg = <<" ", "\n", "a">>
  /\ res = <<"a">>

\* C6: reverseText turns "abc" into "cba", and reversing the result of an
\* ASCII-only string gives the string back.
ReverseIsInvolution ==
  applied = "reverseText" =>
    /\ arg = <<"a", "b", "c">> => res = <<"c", "b", "a">>
    /\ (\A i \in 1..Len(arg) : IsAscii(arg[i])) => reverseText(res) = arg

ReversedAbc ==
  /\ applied = "reverseText"
  /\ arg = <<"a", "b", "c">>
  /\ res = <<"c", "b", "a">>

\* the maximal whitespace runs of s, by the place where each starts
SpaceRunStarts(s) == {i \in 1..Len(s) : IsSpace(s[i]) /\ (i = 1 \/ ~IsSpace(s[i - 1]))}

\* C7: the kebabCase of a non-empty string has no whitespace character: each
\* maximal whitespace run has become one '-', and no upper-case letter is left.
KebabHasNoWhitespace ==
  (applied = "kebabCase" /\ arg /= <<>>) =>
    /\ \A i \in 1..Len(res) : ~IsSpace(res[i]) /\ ~IsUpper(res[i])
    /\ Len(res) = Len(arg) - Len(SelectSeq(arg, IsSpace)) + Cardinality(SpaceRunStarts(arg))
    /\ Len(SelectSeq(res, LAMBDA c : c = "-")) = Cardinality(SpaceRunStarts(arg))

KebabOfSpaceRun ==
  /\ applied = "kebabCase"
  /\ arg = <<"B", " ", "\n">>
  /\ res = <<"b", "-">>

\* C8: the analysis of the empty string has characters = 0, every numeric
\* field present and 0, and empty mostCommonWords and characterFrequency.
EmptyReportAllZero ==
  inputText = <<>> =>
    /\ \A f \in {"characters", "charactersNoSpaces", "words", "sentences",
                 "paragraphs", "averageWordsPerSentence", "readingTime",
                 "readabilityScore", "avgWordLength"} :
         f \in DOMAIN analysis /\ analysis[f] = 0
    /\ analysis.mostCommonWords = <<>>
    /\ analysis.characterFrequency = <<>>

\* the maximal whitespace-delimited tokens of s, by the place where each starts
TokenStarts(s) == {i \in 1..Len(s) : ~IsSpace(s[i]) /\ (i = 1 \/ IsSpace(s[i - 1]))}

\* C9: the analysis has words = 0 exactly when the input is all whitespace;
\* otherwise words is the number of maximal whitespace-delimited tokens, and
\* the statistics line shows the same number.
WordsAreTokens ==
  /\ analysis.words = 0 <=> \A i \in 1..Len(inputText) : IsSpace(inputText[i])
  /\ analysis.words = Cardinality(TokenStarts(inputText))
  /\ stats.words = analysis.words

TwoWordsCounted ==
  /\ inputText = <<" ", "a", "\n", "b">>
  /\ analysis.words = 2
  /\ stats.words = 2

\* C10, as stated: for every input, whitespace-only ones included, characters
\* is the length of the raw input and charactersNoSpaces the length without
\* whitespace.
CharactersAreRawLength ==
  /\ analysis.characters = Len(inputText)
  /\ analysis.charactersNoSpaces = Len(SelectSeq(inputText, LAMBDA c : ~IsSpace(c)))

\* C10, amended: for every input with a non-whitespace character, characters
\* is the length of the raw input and charactersNoSpaces the length without
\* whitespace; for an empty or whitespace-only input both are 0.
CharactersUnlessBlank ==
  IF \E i \in 1..Len(inputText) : ~IsSpace(inputText[i])
  THEN CharactersAreRawLength
  ELSE analysis.characters = 0 /\ analysis.charactersNoSpaces = 0

CharactersCounted ==
  /\ inputText = <<" ", "a", "\n", "b">>
  /\ analysis.characters = 4
  /\ analysis.charactersNoSpaces = 2

\* the number of \w-words of s that start at or before the i-th character
WordIndex(s, i) == Cardinality({j \in 1..i : WordStart(s, j)})

\* the camelCase the claim describes: the first word in lower case, the first
\* letter of every later word in upper case, whitespace removed
CamelCaseClaimed(s) ==
  Flatten([i \in 1..Len(s) |->
    IF IsSpace(s[i]) THEN <<>>
    ELSE IF IsWord(s[i]) /\ WordIndex(s, i) = 1 THEN LowerChar(s[i])
    ELSE IF WordStart(s, i) THEN UpperChar(s[i])
    ELSE <<s[i]>>])

\* C11: camelCase puts the whole first word in lower case, the first letter of
\* every later \w-word in upper case, leaves every other letter unchanged and
\* removes all whitespace, for every input; "hello world test" becomes
\* "helloWorldTest".
CamelCaseWords ==
  applied = "camelCase" =>
    /\ res = CamelCaseClaimed(arg)
    /\ arg = HelloWorldTest =>
         res = <<"h","e","l","l","o","W","o","r","l","d","T","e","s","t">>

\* the titleCase the claim describes: the first character of every maximal run
\* of \w characters in upper case, the other characters of the run in lower case
TitleCaseClaimed(s) ==
  Flatten([i \in 1..Len(s) |->
    IF WordStart(s, i) THEN UpperChar(s[i])
    ELSE IF IsWord(s[i]) THEN LowerChar(s[i])
    ELSE <<s[i]>>])

\* C12: titleCase treats every maximal run of \w characters as a word, also
\* when only punctuation separates two runs: the first character of each run
\* is in upper case, every other character of the run in lower case.
TitleCaseEveryRun ==
  applied = "titleCase" => res = TitleCaseClaimed(arg)

\* the text s with the characters at the places in at in upper case
UpperAt(s, at) ==
  Flatten([i \in 1..Len(s) |-> IF i \in at THEN UpperChar(s[i]) ELSE <<s[i]>>])

\* the \w characters that start the string or follow one of the marks and then
\* one or more whitespace characters
AfterMarkAndSpaces(s, marks) ==
  {i \in 1..Len(s) :
     /\ IsWord(s[i])
     /\ i = 1 \/ \E j \in 1..(i - 2) :
                   s[j] \in marks /\ \A k \in (j + 1)..(i - 1) : IsSpace(s[k])}

\* C13, as stated: sentenceCase puts the input in lower case and then the
\* first letter of the string, the first letter after ". " and the first
\* letter after "! " in upper case; every other letter is in lower case.
SentenceCaseAfterMarks ==
  applied = "sentenceCase" =>
    res = UpperAt(toLowerCase(arg), AfterMarkAndSpaces(toLowerCase(arg), {".", "!"}))

\* C13, amended: sentenceCase puts the input in lower case and then the first
\* character of the string, when it is a \w character, and the first \w
\* character after a '.' followed by one or more whitespace characters, in
\* upper case; a letter after "! " stays in lower case, as does every other
\* letter.
SentenceCaseAfterPeriod ==
  applied = "sentenceCase" =>
    res = UpperAt(toLowerCase(arg), AfterMarkAndSpaces(toLowerCase(arg), {"."}))

SentenceAfterExclamation ==
  /\ applied = "sentenceCase"
  /\ arg = <<"B", "!", " ", "B">>
  /\ res = <<"B", "!", " ", "b">>

\* the addThousandSeparators the claim describes: a ',' before the i-th
\* character when it is inside a digit run, not at its start, and the digits
\* from it to the end of the run are a positive multiple of 3
SeparatorsClaimed(s) ==
  Flatten([i \in 1..Len(s) |->
    (IF /\ i > 1 /\ IsDigit(s[i - 1])
        /\ DigitRun(From(s, i)) > 0
        /\ DigitRun(From(s, i)) % 3 = 0
     THEN <<",">> ELSE <<>>) \o <<s[i]>>])

\* C14: addThousandSeparators puts a ',' inside every maximal digit run at
\* exactly the places with a positive multiple of 3 digits of the run to their
\* right, and never at the start of a run, whatever precedes the run (a
\* letter, an underscore, a '.', the start of the string); "1234567" becomes
\* "1,234,567".
SeparatorsInsideRuns ==
  applied = "addThousandSeparators" =>
    /\ res = SeparatorsClaimed(arg)
    /\ arg = Digits1234567 => res = <<"1",",","2","3","4",",","5","6","7">>

\* the places of s where sep stands between two digits
BetweenDigits(s, sep) ==
  {i \in 2..(Len(s) - 1) : IsDigit(s[i - 1]) /\ s[i] = sep /\ IsDigit(s[i + 1])}

\* s with rep at the places in at
ReplacedAt(s, at, rep) == [i \in 1..Len(s) |-> IF i \in at THEN rep ELSE s[i]]

\* C15: commaToPeriod replaces every ',' between two digits by '.', so that no
\* digit-comma-digit is left in the result, also in "1,2,3" where separators
\* and single digits alternate; periodToComma does the same for '.' and ','.
NoSeparatorLeftBetweenDigits ==
  /\ applied = "commaToPeriod" =>
       /\ res = ReplacedAt(arg, BetweenDigits(arg, ","), ".")
       /\ BetweenDigits(res, ",") = {}
  /\ applied = "periodToComma" =>
       /\ res = ReplacedAt(arg, BetweenDigits(arg, "."), ",")
       /\ BetweenDigits(res, ".") = {}

\* the entries of the distinct words of seq in the order of their first
\* occurrence, each with the number of its occurrences
FirstSeenEntries(seq) ==
  LET seen == FirstOccurrences(seq)
  IN [i \in 1..Len(seen) |-> [word |-> seen[i], count |-> Occurrences(seq, seen[i])]]

\* C16: mostCommonWords is a sequence of at most 5 {word, count} pairs over
\* the lower-cased tokens without punctuation that are longer than 2 and no
\* stop words, ordered by count, largest first, tokens of equal count in the
\* order of their first occurrence in the text, tokens of digits included.
WordsRankedByCountThenFirstSeen ==
  LET ranked == SortByCount(FirstSeenEntries(CountedWords(inputText)))
  IN /\ Len(analysis.mostCommonWords) <= 5
     /\ analysis.mostCommonWords = SubSeq(ranked, 1, Min(5, Len(ranked)))

\* C17: textComplexity is 'Complex' when averageWordsPerSentence > 20 or the
\* reported avgWordLength > 6, otherwise 'Moderate' when
\* averageWordsPerSentence > 15 or the reported avgWordLength > 5, otherwise
\* 'Simple': the label agrees with the two values of the same report (both
\* held in tenths).
ComplexityMatchesReport ==
  trim(inputText) /= <<>> =>
    analysis.textComplexity =
      (IF analysis.averageWordsPerSentence > 200 \/ analysis.avgWordLength > 60
       THEN "Complex"
       ELSE IF analysis.averageWordsPerSentence > 150 \/ analysis.avgWordLength > 50
       THEN "Moderate"
       ELSE "Simple")

\* C18: readabilityScore is an integer from 0 to 100 for every input, also for
\* a text without a sentence segment (sentences = 0, such as "..."), whose
\* averageWordsPerSentence is 0.
ReadabilityFromZeroToHundred ==
  /\ analysis.readabilityScore \in 0..100
  /\ analysis.sentences = 0 => analysis.averageWordsPerSentence = 0

PunctuationOnlyScored ==
  /\ inputText = <<".", ".", ".">>
  /\ analysis.words = 1
  /\ analysis.sentences = 0
  /\ analysis.averageWordsPerSentence = 0
  /\ analysis.readabilityScore = 100

\* C19: a handleConversion called while the input is empty or all whitespace
\* changes nothing: the output keeps its value, it is not set to the
\* conversion of the input, and the history is unchanged.
BlankConversionChangesNothing ==
  [][\A id \in AppConversionIds, t \in now..MaxClock :
       (HandleConversion(id, t) /\ \A i \in 1..Len(inputText) : IsSpace(inputText[i]))
       => UNCHANGED <<outputText, conversionHistory, inputText, stats>>]_vars

BlankInputKeepsOutput ==
  /\ inputText = <<" ">>
  /\ outputText = <<"A", "B">>
  /\ Len(conversionHistory) = 1
  /\ conversionHistory[1].input = <<"a", "B">>

TypingTargetKeydownIgnored ==
  [][(event'.tagName \in {"TEXTAREA", "INPUT"} /\ handleKeyDown(event', now))
       => UNCHANGED <<showShortcuts, shortcut, clipboard, downloaded,
                      inputText, outputText, conversionHistory>>]_vars

CtrlUInTextareaIgnored ==
  /\ event = [tagName |-> "TEXTAREA", key |-> <<"U">>, ctrlKey |-> TRUE, shiftKey |-> FALSE]
  /\ inputText = <<"a", "B">>
  /\ outputText = <<>>
  /\ conversionHistory = <<>>
  /\ shortcut = "none"

\* a supported text file: type text/plain or a name ending in .txt, .md or .csv
SupportedFile(file) ==
  \/ file.type = "text/plain"
  \/ \E ext \in {<<".", "t", "x", "t">>, <<".", "m", "d">>, <<".", "c", "s", "v">>} :
       endsWith(file.name, ext)

\* the entry of the uploaded-files list made from a file
ListedAs(file) == [name |-> file.name, content |-> file.content]

\* C22: a batch without a supported text file is reported and changes nothing
\* else: the uploaded-files list and the input text are unchanged, nothing is
\* read and processing ends false.  A batch with supported files adds only
\* supported files to the list, after the files already listed: a file is
\* kept for the list exactly when it was read successfully, and when the
\* batch is done the input text is the content of the first file kept, or is
\* unchanged when no file was kept.
BatchLoadsFirstReadFile ==
  [][
      /\ \A batch \in Batches :
          ((handleDrop(batch) \/ handleFileInput(batch))
             /\ \A i \in 1..Len(batch) : ~SupportedFile(batch[i]))
          => /\ alerted'
             /\ processing' = FALSE
             /\ UNCHANGED <<uploadedFiles, calls, inputText, stats, outputText>>
      /\ \A batch \in Batches :
          ((handleDrop(batch) \/ handleFileInput(batch))
             /\ \E i \in 1..Len(batch) : SupportedFile(batch[i]))
          => /\ calls' = Append(calls, [textFiles |-> SelectSeq(batch, SupportedFile),
                                        processedFiles |-> <<>>])
             /\ UNCHANGED <<uploadedFiles, alerted, inputText>>
      /\ \A k \in 1..Len(calls), loaded \in BOOLEAN :
          readFileAsText(k, loaded)
          => LET file == calls[k].textFiles[1]
                 kept == IF loaded THEN Append(calls[k].processedFiles, ListedAs(file))
                         ELSE calls[k].processedFiles
             IN IF Len(calls[k].textFiles) > 1
                THEN /\ Len(calls') = Len(calls)
                     /\ calls'[k].processedFiles = kept
                     /\ UNCHANGED <<uploadedFiles, inputText>>
                ELSE /\ Len(calls') = Len(calls) - 1
                     /\ uploadedFiles' = uploadedFiles \o kept
                     /\ \A i \in 1..Len(kept) :
                          \E f \in Files : SupportedFile(f) /\ kept[i] = ListedAs(f)
                     /\ processing' = FALSE
                     /\ inputText' = IF kept /= <<>> THEN kept[1].content ELSE inputText
    ]_vars

PictureRefusedAfterReadme ==
  /\ alerted = TRUE
  /\ processing = FALSE
  /\ calls = <<>>
  /\ uploadedFiles = <<ListedAs(ReadmeMd)>>
  /\ inputText = ReadmeMd.content

====
